---- MODULE Spec2Model ----
(***************************************************************************)
(* A model of the accumulator calculator of src/lib.rs: the Calculator     *)
(* struct (current_value, memory, history), its operations, and the        *)
(* stand-alone factorial function.                                         *)
(*                                                                         *)
(* f64 is modelled by a small binary floating-point format with the same   *)
(* structure as IEEE-754 binary64: signed zeros, subnormals, normal        *)
(* binades, signed infinities, NaN, and round-to-nearest-ties-to-even.     *)
(* Only the precision and the exponent range are smaller.  u64 is modelled *)
(* exactly, as a little-endian sequence of limbs.                          *)
(***************************************************************************)
EXTENDS Integers, Sequences, FiniteSets

VARIABLES
  current_value,   \* Calculator.current_value : f64
  memory,          \* Calculator.memory : f64
  history,         \* Calculator.history : Vec<CalculationHistory>
  call,            \* the last call made on the Calculator, what it returned, and
                   \*   the error (if any) of the call made just before it
  successes,       \* ghost: successful add/subtract/multiply/divide calls since
                   \*        the last clear_history (or construction)
  calls,           \* ghost: number of calls made so far
  mem_base,        \* ghost: value written by the last memory_store/memory_clear
  mem_adds,        \* ghost: current_value at each memory_add since then
  f_n,             \* factorial: the argument n
  f_i,             \* factorial: the loop variable i
  f_result,        \* factorial: the local `result`
  f_pc,            \* factorial: position in the function body
  f_ret            \* factorial: the value returned

calcVars == <<current_value, memory, history, call, successes, calls, mem_base, mem_adds>>
factVars == <<f_n, f_i, f_result, f_pc, f_ret>>
vars == <<current_value, memory, history, call, successes, calls, mem_base, mem_adds,
          f_n, f_i, f_result, f_pc, f_ret>>

(***************************************************************************)
(* Bounds of the model.                                                    *)
(***************************************************************************)
MantBits == 2      \* bits of significand precision of the model float
MaxBinade == 2     \* number of binades above the lowest one
FracBits == 1      \* the smallest subnormal is 2^-FracBits
MaxCalls == 4      \* length of the call sequences explored
MaxFactN == 24     \* largest argument given to factorial

(***************************************************************************)
(* The model of f64.                                                       *)
(***************************************************************************)
RECURSIVE Pow2(_)
Pow2(n) == IF n = 0 THEN 1 ELSE 2 * Pow2(n - 1)

Scale == Pow2(FracBits)

\* Finite magnitudes, in units of the smallest subnormal.
Magnitudes ==
  (0 .. Pow2(MantBits) - 1) \cup
  { m * Pow2(e) : m \in Pow2(MantBits - 1) .. (Pow2(MantBits) - 1), e \in 1 .. MaxBinade }

\* The magnitude the format would hold next if its exponent range were unbounded.
OverflowMag == Pow2(MantBits + MaxBinade)

Fin(s, m) == [k |-> "fin", s |-> s, m |-> m]
Inf(s) == [k |-> "inf", s |-> s, m |-> 0]
NaN == [k |-> "nan", s |-> 0, m |-> 0]

F64 == { Fin(s, m) : s \in {0, 1}, m \in Magnitudes } \cup { Inf(0), Inf(1), NaN }

Zero == Fin(0, 0)
NegZero == Fin(1, 0)
One == Fin(0, Scale)
Two == Fin(0, 2 * Scale)
Half == Fin(0, Scale \div 2)

SetMax(S) == CHOOSE x \in S : \A y \in S : y <= x
SetMin(S) == CHOOSE x \in S : \A y \in S : x <= y

\* The float nearest to the rational num/den (in units of the smallest
\* subnormal), ties to the even significand, overflow to infinity.
Round(s, num, den) ==
  IF num >= OverflowMag * den THEN Inf(s)
  ELSE
    LET Ext == Magnitudes \cup {OverflowMag}
        lo == SetMax({ m \in Ext : m * den <= num })
        hi == SetMin({ m \in Ext : m * den >= num })
        r == IF lo = hi THEN lo
             ELSE IF 2 * num < (lo + hi) * den THEN lo
             ELSE IF 2 * num > (lo + hi) * den THEN hi
             ELSE IF (lo \div (hi - lo)) % 2 = 0 THEN lo ELSE hi
    IN IF r = OverflowMag THEN Inf(s) ELSE Fin(s, r)

\* The signed integer a finite float stands for, in units of the smallest subnormal.
Signed(x) == IF x.s = 1 THEN 0 - x.m ELSE x.m

Abs(n) == IF n < 0 THEN 0 - n ELSE n

Xor(a, b) == IF a = b THEN 0 ELSE 1

FNeg(x) == IF x.k = "nan" THEN NaN ELSE [x EXCEPT !.s = 1 - x.s]

\* x + y, by the rules of IEEE-754
FAddRule(x, y) ==
  IF x.k = "nan" \/ y.k = "nan" THEN NaN
  ELSE IF x.k = "inf" /\ y.k = "inf" THEN (IF x.s = y.s THEN x ELSE NaN)
  ELSE IF x.k = "inf" THEN x
  ELSE IF y.k = "inf" THEN y
  ELSE LET z == Signed(x) + Signed(y)
       IN IF z = 0 THEN (IF x.s = 1 /\ y.s = 1 THEN NegZero ELSE Zero)
          ELSE Round(IF z < 0 THEN 1 ELSE 0, Abs(z), 1)

\* x + y: the rule, tabulated once over the whole format
FAddTable == [x \in F64 |-> [y \in F64 |-> FAddRule(x, y)]]

FAdd(x, y) == FAddTable[x][y]

\* x - y
FSub(x, y) == FAdd(x, FNeg(y))

\* x * y, by the rules of IEEE-754
FMulRule(x, y) ==
  IF x.k = "nan" \/ y.k = "nan" THEN NaN
  ELSE IF x.k = "inf" \/ y.k = "inf"
    THEN (IF (x.k = "fin" /\ x.m = 0) \/ (y.k = "fin" /\ y.m = 0)
          THEN NaN ELSE Inf(Xor(x.s, y.s)))
  ELSE Round(Xor(x.s, y.s), x.m * y.m, Scale)

\* x * y: the rule, tabulated once over the whole format
FMulTable == [x \in F64 |-> [y \in F64 |-> FMulRule(x, y)]]

FMul(x, y) == FMulTable[x][y]

\* x / y, by the rules of IEEE-754
FDivRule(x, y) ==
  IF x.k = "nan" \/ y.k = "nan" THEN NaN
  ELSE IF x.k = "inf" THEN (IF y.k = "inf" THEN NaN ELSE Inf(Xor(x.s, y.s)))
  ELSE IF y.k = "inf" THEN Fin(Xor(x.s, y.s), 0)
  ELSE IF y.m = 0 THEN (IF x.m = 0 THEN NaN ELSE Inf(Xor(x.s, y.s)))
  ELSE Round(Xor(x.s, y.s), x.m * Scale, y.m)

\* x / y: the rule, tabulated once over the whole format
FDivTable == [x \in F64 |-> [y \in F64 |-> FDivRule(x, y)]]

FDiv(x, y) == FDivTable[x][y]

\* x == y
FEq(x, y) ==
  /\ x.k # "nan"
  /\ y.k # "nan"
  /\ \/ x = y
     \/ (x.k = "fin" /\ y.k = "fin" /\ x.m = 0 /\ y.m = 0)

\* x < y
FLt(x, y) ==
  /\ x.k # "nan"
  /\ y.k # "nan"
  /\ ~FEq(x, y)
  /\ IF x.k = "inf" THEN x.s = 1
     ELSE IF y.k = "inf" THEN y.s = 0
     ELSE Signed(x) < Signed(y)

\* f64::sqrt, by the rules of IEEE-754
FSqrtRule(x) ==
  IF x.k = "nan" THEN NaN
  ELSE IF x.k = "fin" /\ x.m = 0 THEN x
  ELSE IF x.s = 1 THEN NaN
  ELSE IF x.k = "inf" THEN x
  ELSE
    LET n == x.m * Scale
        lo == SetMax({ m \in Magnitudes : m * m <= n })
        hi == SetMin({ m \in Magnitudes : m * m >= n })
    IN IF lo = hi THEN Fin(0, lo)
       ELSE IF (lo + hi) * (lo + hi) > 4 * n THEN Fin(0, lo)
       ELSE IF (lo + hi) * (lo + hi) < 4 * n THEN Fin(0, hi)
       ELSE IF (lo \div (hi - lo)) % 2 = 0 THEN Fin(0, lo) ELSE Fin(0, hi)

FSqrtTable == [x \in F64 |-> FSqrtRule(x)]

\* f64::sqrt
FSqrt(x) == FSqrtTable[x]

\* The exponents the model gives to power.
Exponents == { Zero, Two, Half, FNeg(One) }

\* f64::powf, on the exponents of Exponents and 1.0
FPow(x, e) ==
  IF e.k = "fin" /\ e.m = 0 THEN One
  ELSE IF x = One THEN One
  ELSE IF x.k = "nan" \/ e.k = "nan" THEN NaN
  ELSE CASE e = One -> x
         [] e = Two -> FMul(x, x)
         [] e = FNeg(One) -> FDiv(One, x)
         [] e = Half -> IF x.k = "inf" THEN Inf(0)
                        ELSE IF x.m = 0 THEN Zero
                        ELSE FSqrt(x)

(***************************************************************************)
(* The Calculator.                                                         *)
(***************************************************************************)

\* The arguments the model gives to add, subtract, multiply and divide.
Operands == { Zero, NegZero, Two, FNeg(One) }

\* The arguments the model gives to set_value.
SetValues == { FNeg(Two), NaN }

Operation == { "Add", "Subtract", "Multiply", "Divide" }

CalculationHistory(operand1, operand2, operation, result) ==
  [operand1 |-> operand1, operand2 |-> operand2, operation |-> operation, result |-> result]

NoArg == [k |-> "none", s |-> 0, m |-> 0]

\* What a call returns: (), an f64, Ok(f64) or Err(CalcError).
Unit == [kind |-> "unit", val |-> NoArg, err |-> "none"]
Value(v) == [kind |-> "value", val |-> v, err |-> "none"]
Ok(v) == [kind |-> "ok", val |-> v, err |-> "none"]
Err(e) == [kind |-> "err", val |-> NoArg, err |-> e]

\* A call and its return value, made right after the call recorded in `call`.
Called(op, arg, ret) == [op |-> op, arg |-> arg, ret |-> ret, after |-> call.ret.err]

\* add_to_history filling the two operand fields the wrong way round
add_to_history_swapped(h, operand1, operand2, operation, result) ==
  Append(h, CalculationHistory(operand2, operand1, operation, result))

add_to_history(h, operand1, operand2, operation, result) ==
  Append(h, CalculationHistory(operand1, operand2, operation, result))

history_count == Len(history)

get_value == current_value

get_memory == memory

get_history == history

new ==
  /\ current_value = Zero
  /\ memory = Zero
  /\ history = <<>>
  /\ call = [op |-> "new", arg |-> NoArg, ret |-> Unit, after |-> "none"]
  /\ successes = 0
  /\ calls = 0
  /\ mem_base = Zero
  /\ mem_adds = <<>>

add(value) ==
  /\ calls < MaxCalls
  /\ LET result == FAdd(current_value, value)
     IN /\ history' = add_to_history(history, current_value, value, "Add", result)
        /\ current_value' = result
        /\ call' = Called("add", value, Value(result))
  /\ successes' = successes + 1
  /\ calls' = calls + 1
  /\ UNCHANGED <<memory, mem_base, mem_adds>>
  /\ UNCHANGED factVars

\* subtract with its operands the wrong way round
subtract_reversed(value) ==
  /\ calls < MaxCalls
  /\ LET result == FSub(value, current_value)
     IN /\ history' = add_to_history(history, current_value, value, "Subtract", result)
        /\ current_value' = result
        /\ call' = Called("subtract", value, Value(result))
  /\ successes' = successes + 1
  /\ calls' = calls + 1
  /\ UNCHANGED <<memory, mem_base, mem_adds>>
  /\ UNCHANGED factVars

subtract(value) ==
  /\ calls < MaxCalls
  /\ LET result == FSub(current_value, value)
     IN /\ history' = add_to_history(history, current_value, value, "Subtract", result)
        /\ current_value' = result
        /\ call' = Called("subtract", value, Value(result))
  /\ successes' = successes + 1
  /\ calls' = calls + 1
  /\ UNCHANGED <<memory, mem_base, mem_adds>>
  /\ UNCHANGED factVars

\* multiply recording its entry after current_value was overwritten
multiply_records_late(value) ==
  /\ calls < MaxCalls
  /\ LET result == FMul(current_value, value)
     IN /\ history' = add_to_history(history, result, value, "Multiply", result)
        /\ current_value' = result
        /\ call' = Called("multiply", value, Value(result))
  /\ successes' = successes + 1
  /\ calls' = calls + 1
  /\ UNCHANGED <<memory, mem_base, mem_adds>>
  /\ UNCHANGED factVars

multiply(value) ==
  /\ calls < MaxCalls
  /\ LET result == FMul(current_value, value)
     IN /\ history' = add_to_history(history, current_value, value, "Multiply", result)
        /\ current_value' = result
        /\ call' = Called("multiply", value, Value(result))
  /\ successes' = successes + 1
  /\ calls' = calls + 1
  /\ UNCHANGED <<memory, mem_base, mem_adds>>
  /\ UNCHANGED factVars

\* divide refusing a quotient that is not finite
divide_rejects_nonfinite(value) ==
  /\ calls < MaxCalls
  /\ IF FEq(value, Zero) \/ FDiv(current_value, value).k # "fin"
     THEN /\ call' = Called("divide", value, Err("DivisionByZero"))
          /\ UNCHANGED <<current_value, history, successes>>
     ELSE LET result == FDiv(current_value, value)
          IN /\ history' = add_to_history(history, current_value, value, "Divide", result)
             /\ current_value' = result
             /\ call' = Called("divide", value, Ok(result))
             /\ successes' = successes + 1
  /\ calls' = calls + 1
  /\ UNCHANGED <<memory, mem_base, mem_adds>>
  /\ UNCHANGED factVars

\* divide with the history entry pushed before the zero check
divide_records_first(value) ==
  /\ calls < MaxCalls
  /\ LET result == FDiv(current_value, value)
     IN /\ history' = add_to_history(history, current_value, value, "Divide", result)
        /\ IF FEq(value, Zero)
           THEN /\ call' = Called("divide", value, Err("DivisionByZero"))
                /\ UNCHANGED <<current_value, successes>>
           ELSE /\ current_value' = result
                /\ call' = Called("divide", value, Ok(result))
                /\ successes' = successes + 1
  /\ calls' = calls + 1
  /\ UNCHANGED <<memory, mem_base, mem_adds>>
  /\ UNCHANGED factVars

divide(value) ==
  /\ calls < MaxCalls
  /\ IF FEq(value, Zero)
     THEN /\ call' = Called("divide", value, Err("DivisionByZero"))
          /\ UNCHANGED <<current_value, history, successes>>
     ELSE LET result == FDiv(current_value, value)
          IN /\ history' = add_to_history(history, current_value, value, "Divide", result)
             /\ current_value' = result
             /\ call' = Called("divide", value, Ok(result))
             /\ successes' = successes + 1
  /\ calls' = calls + 1
  /\ UNCHANGED <<memory, mem_base, mem_adds>>
  /\ UNCHANGED factVars

\* sqrt with the guard written <= 0.0
sqrt_rejects_zero ==
  /\ calls < MaxCalls
  /\ IF FLt(current_value, Zero) \/ FEq(current_value, Zero)
     THEN /\ call' = Called("sqrt", NoArg, Err("NegativeSqrt"))
          /\ UNCHANGED current_value
     ELSE /\ current_value' = FSqrt(current_value)
          /\ call' = Called("sqrt", NoArg, Ok(current_value'))
  /\ calls' = calls + 1
  /\ UNCHANGED <<memory, history, successes, mem_base, mem_adds>>
  /\ UNCHANGED factVars

\* sqrt recorded in the history like the binary operations
sqrt_recorded ==
  /\ calls < MaxCalls
  /\ IF FLt(current_value, Zero)
     THEN /\ call' = Called("sqrt", NoArg, Err("NegativeSqrt"))
          /\ UNCHANGED <<current_value, history>>
     ELSE /\ current_value' = FSqrt(current_value)
          /\ history' = add_to_history(history, current_value, current_value, "Multiply",
                                       current_value')
          /\ call' = Called("sqrt", NoArg, Ok(current_value'))
  /\ calls' = calls + 1
  /\ UNCHANGED <<memory, successes, mem_base, mem_adds>>
  /\ UNCHANGED factVars

sqrt ==
  /\ calls < MaxCalls
  /\ IF FLt(current_value, Zero)
     THEN /\ call' = Called("sqrt", NoArg, Err("NegativeSqrt"))
          /\ UNCHANGED current_value
     ELSE /\ current_value' = FSqrt(current_value)
          /\ call' = Called("sqrt", NoArg, Ok(current_value'))
  /\ calls' = calls + 1
  /\ UNCHANGED <<memory, history, successes, mem_base, mem_adds>>
  /\ UNCHANGED factVars

power(exponent) ==
  /\ calls < MaxCalls
  /\ current_value' = FPow(current_value, exponent)
  /\ call' = Called("power", exponent, Value(current_value'))
  /\ calls' = calls + 1
  /\ UNCHANGED <<memory, history, successes, mem_base, mem_adds>>
  /\ UNCHANGED factVars

\* set_value starting a fresh calculation, history included
set_value_drops_history(value) ==
  /\ calls < MaxCalls
  /\ current_value' = value
  /\ history' = <<>>
  /\ call' = Called("set_value", value, Unit)
  /\ calls' = calls + 1
  /\ UNCHANGED <<memory, successes, mem_base, mem_adds>>
  /\ UNCHANGED factVars

set_value(value) ==
  /\ calls < MaxCalls
  /\ current_value' = value
  /\ call' = Called("set_value", value, Unit)
  /\ calls' = calls + 1
  /\ UNCHANGED <<memory, history, successes, mem_base, mem_adds>>
  /\ UNCHANGED factVars

\* clear resetting the memory register too
clear_resets_memory ==
  /\ calls < MaxCalls
  /\ current_value' = Zero
  /\ memory' = Zero
  /\ call' = Called("clear", NoArg, Unit)
  /\ calls' = calls + 1
  /\ UNCHANGED <<history, successes, mem_base, mem_adds>>
  /\ UNCHANGED factVars

clear ==
  /\ calls < MaxCalls
  /\ current_value' = Zero
  /\ call' = Called("clear", NoArg, Unit)
  /\ calls' = calls + 1
  /\ UNCHANGED <<memory, history, successes, mem_base, mem_adds>>
  /\ UNCHANGED factVars

memory_store ==
  /\ calls < MaxCalls
  /\ memory' = current_value
  /\ call' = Called("memory_store", NoArg, Unit)
  /\ mem_base' = current_value
  /\ mem_adds' = <<>>
  /\ calls' = calls + 1
  /\ UNCHANGED <<current_value, history, successes>>
  /\ UNCHANGED factVars

\* memory_recall returning the value it replaced
memory_recall_returns_old ==
  /\ calls < MaxCalls
  /\ current_value' = memory
  /\ call' = Called("memory_recall", NoArg, Value(current_value))
  /\ calls' = calls + 1
  /\ UNCHANGED <<memory, history, successes, mem_base, mem_adds>>
  /\ UNCHANGED factVars

memory_recall ==
  /\ calls < MaxCalls
  /\ current_value' = memory
  /\ call' = Called("memory_recall", NoArg, Value(memory))
  /\ calls' = calls + 1
  /\ UNCHANGED <<memory, history, successes, mem_base, mem_adds>>
  /\ UNCHANGED factVars

memory_clear ==
  /\ calls < MaxCalls
  /\ memory' = Zero
  /\ call' = Called("memory_clear", NoArg, Unit)
  /\ mem_base' = Zero
  /\ mem_adds' = <<>>
  /\ calls' = calls + 1
  /\ UNCHANGED <<current_value, history, successes>>
  /\ UNCHANGED factVars

\* memory_add written with = in place of +=
memory_add_overwrites ==
  /\ calls < MaxCalls
  /\ memory' = current_value
  /\ call' = Called("memory_add", NoArg, Unit)
  /\ mem_adds' = Append(mem_adds, current_value)
  /\ calls' = calls + 1
  /\ UNCHANGED <<current_value, history, successes, mem_base>>
  /\ UNCHANGED factVars

memory_add ==
  /\ calls < MaxCalls
  /\ memory' = FAdd(memory, current_value)
  /\ call' = Called("memory_add", NoArg, Unit)
  /\ mem_adds' = Append(mem_adds, current_value)
  /\ calls' = calls + 1
  /\ UNCHANGED <<current_value, history, successes, mem_base>>
  /\ UNCHANGED factVars

clear_history ==
  /\ calls < MaxCalls
  /\ history' = <<>>
  /\ call' = Called("clear_history", NoArg, Unit)
  /\ successes' = 0
  /\ calls' = calls + 1
  /\ UNCHANGED <<current_value, memory, mem_base, mem_adds>>
  /\ UNCHANGED factVars

(***************************************************************************)
(* factorial.                                                              *)
(***************************************************************************)
FactorialLimit == 20

\* u64 values are little-endian sequences of U64Limbs limbs in base LimbBase.
LimbBase == 10000

U64Limbs == 5

\* u64::MAX = 18446744073709551615
U64Max == <<1615, 955, 737, 6744, 1844>>

BigOne == <<1, 0, 0, 0, 0>>

BigZero == <<0, 0, 0, 0, 0>>

\* The exact product a * k, one limb wider than a.
RECURSIVE MulLimbs(_, _, _, _)
MulLimbs(a, k, idx, carry) ==
  IF idx > Len(a) THEN <<carry>>
  ELSE LET t == a[idx] * k + carry
       IN <<t % LimbBase>> \o MulLimbs(a, k, idx + 1, t \div LimbBase)

\* a <= b, for limb sequences of the same length.
RECURSIVE BigLeqFrom(_, _, _)
BigLeqFrom(a, b, idx) ==
  IF idx = 0 THEN TRUE
  ELSE IF a[idx] < b[idx] THEN TRUE
  ELSE IF a[idx] > b[idx] THEN FALSE
  ELSE BigLeqFrom(a, b, idx - 1)

BigLeq(a, b) == BigLeqFrom(a, b, Len(a))

\* u64::checked_mul(a, k): None when the product exceeds u64::MAX.
checked_mul(a, k) ==
  LET wide == MulLimbs(a, k, 1, 0)
      low == SubSeq(wide, 1, U64Limbs)
  IN IF wide[U64Limbs + 1] = 0 /\ BigLeq(low, U64Max)
     THEN [some |-> TRUE, val |-> low]
     ELSE [some |-> FALSE, val |-> BigZero]

FactIdle ==
  /\ f_n = 0
  /\ f_i = 0
  /\ f_result = BigZero
  /\ f_pc = "idle"
  /\ f_ret = [kind |-> "none", val |-> BigZero, err |-> "none"]

\* A call factorial(n) is about to run.
FactCalled ==
  /\ f_n \in 0 .. MaxFactN
  /\ f_i = 0
  /\ f_result = BigZero
  /\ f_pc = "entry"
  /\ f_ret = [kind |-> "none", val |-> BigZero, err |-> "none"]

\* factorial with the ceiling one too high
factorial_entry_admits_21 ==
  /\ f_pc = "entry"
  /\ IF f_n > FactorialLimit + 1
     THEN /\ f_pc' = "rejected"
          /\ f_ret' = [kind |-> "err", val |-> BigZero, err |-> "Overflow"]
          /\ UNCHANGED <<f_i, f_result>>
     ELSE /\ f_pc' = "loop"
          /\ f_result' = BigOne
          /\ f_i' = 2
          /\ UNCHANGED f_ret
  /\ UNCHANGED f_n
  /\ UNCHANGED calcVars

\* factorial with the guard written n >= 20
factorial_entry_rejects_limit ==
  /\ f_pc = "entry"
  /\ IF f_n >= FactorialLimit
     THEN /\ f_pc' = "rejected"
          /\ f_ret' = [kind |-> "err", val |-> BigZero, err |-> "Overflow"]
          /\ UNCHANGED <<f_i, f_result>>
     ELSE /\ f_pc' = "loop"
          /\ f_result' = BigOne
          /\ f_i' = 2
          /\ UNCHANGED f_ret
  /\ UNCHANGED f_n
  /\ UNCHANGED calcVars

\* if n > 20 { return Err(Overflow) }; let mut result = 1; for i in 2..=n
factorial_entry ==
  /\ f_pc = "entry"
  /\ IF f_n > FactorialLimit
     THEN /\ f_pc' = "rejected"
          /\ f_ret' = [kind |-> "err", val |-> BigZero, err |-> "Overflow"]
          /\ UNCHANGED <<f_i, f_result>>
     ELSE /\ f_pc' = "loop"
          /\ f_result' = BigOne
          /\ f_i' = 2
          /\ UNCHANGED f_ret
  /\ UNCHANGED f_n
  /\ UNCHANGED calcVars

\* result = result.checked_mul(i as u64).ok_or(Overflow)?
factorial_loop ==
  /\ f_pc = "loop"
  /\ f_i <= f_n
  /\ LET p == checked_mul(f_result, f_i)
     IN IF p.some
        THEN /\ f_result' = p.val
             /\ f_i' = f_i + 1
             /\ UNCHANGED <<f_pc, f_ret>>
        ELSE /\ f_pc' = "overflowed"
             /\ f_ret' = [kind |-> "err", val |-> BigZero, err |-> "Overflow"]
             /\ UNCHANGED <<f_i, f_result>>
  /\ UNCHANGED f_n
  /\ UNCHANGED calcVars

\* Ok(result)
factorial_return ==
  /\ f_pc = "loop"
  /\ f_i > f_n
  /\ f_pc' = "returned"
  /\ f_ret' = [kind |-> "ok", val |-> f_result, err |-> "none"]
  /\ UNCHANGED <<f_n, f_i, f_result>>
  /\ UNCHANGED calcVars

(***************************************************************************)
(* Specifications.                                                         *)
(***************************************************************************)
Init == new /\ FactIdle

Next ==
  \/ \E v \in Operands : add(v)
  \/ \E v \in Operands : subtract(v)
  \/ \E v \in Operands : multiply(v)
  \/ \E v \in Operands : divide(v)
  \/ sqrt
  \/ \E e \in Exponents : power(e)
  \/ \E v \in SetValues : set_value(v)
  \/ clear
  \/ memory_store
  \/ memory_recall
  \/ memory_clear
  \/ memory_add
  \/ clear_history

Spec == Init /\ [][Next]_vars

FactInit == new /\ FactCalled

FactNext ==
  \/ factorial_entry
  \/ factorial_loop
  \/ factorial_return

FactSpec == FactInit /\ [][FactNext]_vars

(***************************************************************************)
(* Vocabulary of the properties.                                           *)
(***************************************************************************)
BinaryCalls == { "add", "subtract", "multiply", "divide" }

\* The call just made was add, subtract, multiply or divide and did not fail.
BinarySucceeded(c) == c.op \in BinaryCalls /\ c.ret.kind \in { "value", "ok" }

TagOf(op) ==
  CASE op = "add" -> "Add"
    [] op = "subtract" -> "Subtract"
    [] op = "multiply" -> "Multiply"
    [] op = "divide" -> "Divide"

\* operand1 combined with operand2 under an operation tag
Combine(tag, a, b) ==
  CASE tag = "Add" -> FAdd(a, b)
    [] tag = "Subtract" -> FSub(a, b)
    [] tag = "Multiply" -> FMul(a, b)
    [] tag = "Divide" -> FDiv(a, b)

\* x >= 0.0
NonNegative(x) == FLt(Zero, x) \/ FEq(x, Zero)

IsPrefix(s, t) == Len(s) <= Len(t) /\ SubSeq(t, 1, Len(s)) = s

\* acc + xs[1] + xs[2] + ..., added in this order
RECURSIVE SumFrom(_, _)
SumFrom(acc, xs) == IF xs = <<>> THEN acc ELSE SumFrom(FAdd(acc, Head(xs)), Tail(xs))

\* 1 * 2 * ... * n as a u64 limb sequence (for n whose product fits)
RECURSIVE ProductUpTo(_)
ProductUpTo(n) ==
  IF n = 0 THEN BigOne
  ELSE SubSeq(MulLimbs(ProductUpTo(n - 1), n, 1, 0), 1, U64Limbs)

FactFinished == f_pc \in { "rejected", "overflowed", "returned" }

(***************************************************************************)
(* C1. In every reachable state history_count() equals the number of       *)
(* successful add, subtract, multiply and divide calls made since the last *)
(* clear_history() (or since construction); every other call, and a failed *)
(* divide or sqrt, leaves it unchanged.                                    *)
(***************************************************************************)
C1_HistoryCountIsSuccessCount == history_count = successes

\* Two successful binary calls, then a divide that failed: the count is 2.
C1_Witness ==
  /\ call.op = "divide"
  /\ call.ret.kind = "err"
  /\ calls = 3
  /\ history_count = 2

(***************************************************************************)
(* C2. divide(v) with v equal to zero returns the DivisionByZero error and *)
(* leaves current_value, memory and history as they were.                  *)
(***************************************************************************)
C2_DivideByZeroFailsAndKeepsState ==
  [][ (call'.op = "divide" /\ FEq(call'.arg, Zero))
        => /\ call'.ret = Err("DivisionByZero")
           /\ UNCHANGED <<current_value, memory, history>> ]_vars

\* A failed divide(-0.0) on a calculator whose three fields are all non-trivial.
C2_Witness ==
  /\ call.op = "divide"
  /\ call.arg = NegZero
  /\ call.ret = Err("DivisionByZero")
  /\ ~FEq(current_value, Zero)
  /\ ~FEq(memory, Zero)
  /\ history # <<>>

(***************************************************************************)
(* C3. With current_value < 0, sqrt() returns the NegativeSqrt error and   *)
(* leaves current_value, memory and history unchanged; with                *)
(* current_value >= 0 it succeeds, replaces current_value by its square    *)
(* root and returns it.                                                    *)
(***************************************************************************)
C3_SqrtGuard ==
  [][ call'.op = "sqrt"
        => /\ FLt(current_value, Zero)
                => /\ call'.ret = Err("NegativeSqrt")
                   /\ UNCHANGED <<current_value, memory, history>>
           /\ NonNegative(current_value)
                => /\ call'.ret = Ok(FSqrt(current_value))
                   /\ current_value' = FSqrt(current_value)
                   /\ UNCHANGED <<memory, history>> ]_vars

\* A sqrt that failed on a negative current_value, memory and history non-trivial.
C3_Witness ==
  /\ call.op = "sqrt"
  /\ call.ret = Err("NegativeSqrt")
  /\ FLt(current_value, Zero)
  /\ ~FEq(memory, Zero)
  /\ history # <<>>

(***************************************************************************)
(* C4. clear() sets current_value to 0 and leaves memory and history       *)
(* unchanged.                                                              *)
(***************************************************************************)
C4_ClearKeepsMemoryAndHistory ==
  [][ call'.op = "clear"
        => /\ current_value' = Zero
           /\ UNCHANGED <<memory, history>> ]_vars

\* After clear(): current_value is 0 while memory and history still hold data.
C4_Witness ==
  /\ call.op = "clear"
  /\ current_value = Zero
  /\ ~FEq(memory, Zero)
  /\ history # <<>>

(***************************************************************************)
(* C5. add(v), subtract(v), multiply(v) and a successful divide(v) set     *)
(* current_value to (current_value before the call) op v and return        *)
(* exactly that new current_value, so a chain of calls is the              *)
(* left-to-right fold of its operations.                                   *)
(***************************************************************************)
C5_BinaryCallsFoldRunningValue ==
  [][ BinarySucceeded(call')
        => /\ current_value' = Combine(TagOf(call'.op), current_value, call'.arg)
           /\ call'.ret.val = current_value' ]_vars

\* From 0: add(2) = 2, multiply(2) = 4, subtract(2) = 2, divide(-1) = -2,
\* with four history entries.
C5_Witness ==
  /\ calls = 4
  /\ history_count = 4
  /\ [i \in 1 .. 4 |-> history[i].operation] = <<"Add", "Multiply", "Subtract", "Divide">>
  /\ [i \in 1 .. 4 |-> history[i].operand2] = <<Two, Two, Two, FNeg(One)>>
  /\ current_value = FNeg(Two)
  /\ call.ret = Ok(FNeg(Two))

(***************************************************************************)
(* C6. Every successful add, subtract, multiply or divide call with        *)
(* argument v appends exactly one entry at the end of history: (operand1 = *)
(* current_value before the call, operand2 = v, operation = the tag of the *)
(* call, result = the new current_value returned by the call).             *)
(***************************************************************************)
C6_SuccessAppendsOneEntry ==
  [][ BinarySucceeded(call')
        => /\ history' = Append(history,
                                CalculationHistory(current_value, call'.arg,
                                                   TagOf(call'.op), current_value'))
           /\ call'.ret.val = current_value' ]_vars

\* A multiply that changed current_value has just appended a second entry.
C6_Witness ==
  /\ call.op = "multiply"
  /\ history_count = 2
  /\ history[2].operation = "Multiply"
  /\ history[2].operand1 # history[2].result
  /\ history[2].result = current_value

(***************************************************************************)
(* C7. History is append-only: for every call other than clear_history the *)
(* history before the call is a prefix of the history after it, and        *)
(* clear_history() is the only call that removes entries; it leaves        *)
(* history empty and current_value and memory unchanged.                   *)
(***************************************************************************)
C7_HistoryAppendOnly ==
  [][ /\ call'.op # "clear_history" => IsPrefix(history, history')
      /\ call'.op = "clear_history"
           => /\ history' = <<>>
              /\ UNCHANGED <<current_value, memory>> ]_vars

\* set_value was called on a calculator holding three entries, and they are all
\* still there.
C7_Witness ==
  /\ call.op = "set_value"
  /\ calls = 4
  /\ history_count = 3

(***************************************************************************)
(* C8. factorial(n) returns the Overflow error exactly when n > 20, and    *)
(* for n in 0..20 returns the product 1*2*...*n as a u64, with             *)
(* factorial(0) = factorial(1) = 1 and factorial(20) = 2432902008176640000.*)
(***************************************************************************)
C8_FactorialResult ==
  FactFinished
    => /\ f_ret.kind = "err" <=> f_n > 20
       /\ f_ret.kind = "err" => f_ret.err = "Overflow"
       /\ f_n <= 20
            => /\ f_ret.kind = "ok"
               /\ f_ret.val = ProductUpTo(f_n)
               /\ BigLeq(f_ret.val, U64Max)
       /\ f_n \in {0, 1} => f_ret.val = <<1, 0, 0, 0, 0>>
       /\ f_n = 5 => f_ret.val = <<120, 0, 0, 0, 0>>
       /\ f_n = 10 => f_ret.val = <<8800, 362, 0, 0, 0>>
       /\ f_n = 20 => f_ret.val = <<0, 7664, 81, 2902, 243>>

\* factorial(20) has returned Ok(2432902008176640000).
C8_Witness ==
  /\ f_pc = "returned"
  /\ f_n = 20
  /\ f_ret = [kind |-> "ok", val |-> <<0, 7664, 81, 2902, 243>>, err |-> "none"]

(***************************************************************************)
(* C9. memory changes only through memory_store (memory := current_value), *)
(* memory_add (memory := memory + current_value) and memory_clear          *)
(* (memory := 0), none of which changes current_value or history; so       *)
(* memory always equals the value captured by the most recent memory_store *)
(* (0 after memory_clear or construction) plus the current_values of the   *)
(* memory_add calls made since, added in call order.                       *)
(***************************************************************************)
C9_MemoryRegister ==
  [][ /\ memory' # memory => call'.op \in { "memory_store", "memory_add", "memory_clear" }
      /\ call'.op = "memory_store" => memory' = current_value
      /\ call'.op = "memory_add" => memory' = FAdd(memory, current_value)
      /\ call'.op = "memory_clear" => memory' = Zero
      /\ call'.op \in { "memory_store", "memory_add", "memory_clear" }
           => UNCHANGED <<current_value, history>>
      /\ memory = SumFrom(mem_base, mem_adds)
      /\ memory' = SumFrom(mem_base', mem_adds') ]_vars

\* A stored non-zero value with two memory_add calls on top of it.
C9_Witness ==
  /\ call.op = "memory_add"
  /\ ~FEq(mem_base, Zero)
  /\ Len(mem_adds) = 2
  /\ memory # mem_base

(***************************************************************************)
(* C10. memory_recall() sets current_value to the stored memory value and  *)
(* returns that value, leaving memory and history unchanged; memory_store()*)
(* immediately followed by memory_recall() returns the current_value and   *)
(* leaves the whole state as it was after the store.                       *)
(***************************************************************************)
C10_MemoryRecall ==
  [][ call'.op = "memory_recall"
        => /\ current_value' = memory
           /\ call'.ret = Value(memory)
           /\ UNCHANGED <<memory, history>>
           /\ call.op = "memory_store"
                => /\ call'.ret = Value(current_value)
                   /\ UNCHANGED <<current_value, memory, history>> ]_vars

\* memory_recall has replaced the result of the last recorded operation by a
\* different, non-zero memory value.
C10_Witness ==
  /\ call.op = "memory_recall"
  /\ call.ret = Value(memory)
  /\ current_value = memory
  /\ ~FEq(memory, Zero)
  /\ history # <<>>
  /\ history[Len(history)].result # current_value

(***************************************************************************)
(* C11. The only failing Calculator calls are divide with a zero divisor   *)
(* and sqrt with a negative current_value.  divide(v) with v != 0 succeeds *)
(* in every reachable state, also right after a failed divide(0), which    *)
(* left the state as it was, so the quotient is the one the call would     *)
(* have given without the failed call; add, subtract, multiply and power   *)
(* never return an error.                                                  *)
(***************************************************************************)
C11_OnlyZeroDivisorAndNegativeSqrtFail ==
  [][ /\ call'.ret.kind = "err"
           => /\ \/ call'.op = "divide" /\ FEq(call'.arg, Zero)
                 \/ call'.op = "sqrt" /\ FLt(current_value, Zero)
              /\ UNCHANGED <<current_value, memory, history>>
      /\ (call'.op = "divide" /\ ~FEq(call'.arg, Zero))
           => /\ call'.ret = Ok(FDiv(current_value, call'.arg))
              /\ current_value' = FDiv(current_value, call'.arg)
      /\ call'.op \in { "add", "subtract", "multiply", "power" }
           => call'.ret = Value(current_value') ]_vars

\* add(2), then a divide by zero that failed, then divide(2) = 1: the second
\* entry divides the 2 that the failed call left in place.
C11_Witness ==
  /\ call.op = "divide"
  /\ call.after = "DivisionByZero"
  /\ call.ret = Ok(One)
  /\ history = << CalculationHistory(Zero, Two, "Add", Two),
                  CalculationHistory(Two, Two, "Divide", One) >>

(***************************************************************************)
(* C12. For every n <= 20 the running product of factorial's loop never    *)
(* exceeds 2^64 - 1, so the checked multiplication never reports overflow  *)
(* and the Overflow branch inside the loop is unreachable: the n > 20      *)
(* guard is the only path that returns Overflow.  21! exceeds 2^64 - 1, so *)
(* 20 is the largest ceiling that keeps this true.                         *)
(***************************************************************************)
C12_LoopNeverOverflows ==
  /\ f_pc # "overflowed"
  /\ f_ret.kind = "err" => f_pc = "rejected" /\ f_n > 20
  /\ f_pc \in { "loop", "returned" }
       => /\ f_n <= 20
          /\ f_result = ProductUpTo(f_i - 1)
          /\ BigLeq(f_result, U64Max)
  /\ (f_pc = "loop" /\ f_i <= f_n)
       => /\ checked_mul(f_result, f_i).some
          /\ MulLimbs(f_result, f_i, 1, 0)[U64Limbs + 1] = 0
  /\ f_pc = "returned" => ~checked_mul(f_result, 21).some \/ f_n < 20

\* factorial(20) has made its last multiplication: result is 20!, which fits,
\* and one more multiplication, by 21, would not.
C12_Witness ==
  /\ f_pc = "loop"
  /\ f_n = 20
  /\ f_i = 21
  /\ f_result = <<0, 7664, 81, 2902, 243>>
  /\ ~checked_mul(f_result, 21).some

(***************************************************************************)
(* C13. In every reachable state every history entry tagged Divide has     *)
(* operand2 != 0, and every entry's result is its operand1 combined with   *)
(* its operand2 under the entry's operation tag, also when set_value,      *)
(* power, sqrt, clear or memory_recall changed current_value between the   *)
(* recorded operations.  (A NaN result counts as the value the operation   *)
(* gives: the comparison is of values, not the f64 == under which NaN      *)
(* differs from itself.)                                                   *)
(***************************************************************************)
C13_HistoryEntriesConsistent ==
  \A i \in 1 .. Len(history) :
    /\ history[i].operation \in Operation
    /\ history[i].operation = "Divide" => ~FEq(history[i].operand2, Zero)
    /\ history[i].result
         = Combine(history[i].operation, history[i].operand1, history[i].operand2)

\* A Divide entry recorded after current_value was changed behind the history's
\* back: its operand1 is not the result of the entry before it.
C13_Witness ==
  /\ history_count = 2
  /\ history[2].operation = "Divide"
  /\ history[2].operand1 # history[1].result
  /\ history[2].operand1 # history[2].result
  /\ ~FEq(history[2].operand1, Zero)

====
